---- MODULE Spec2Model ----
(***************************************************************************)
(* rbAI: behavioural engagement scoring (DataFusionEngine, CESCalculator)  *)
(* and sandboxed code execution (execution service endpoint, Python and    *)
(* Java executors, and the single-class CodeExecutor).                     *)
(*                                                                         *)
(* Floating point values of the scoring pipeline are modelled as exact     *)
(* rationals <<numerator, denominator>> with a positive denominator.       *)
(* Text (stdout, expected output) is modelled as a sequence of tokens.     *)
(***************************************************************************)
EXTENDS Integers, Sequences, FiniteSets, TLC

VARIABLES
    metrics,     \* SessionMetrics of the latest telemetry update
    insights,    \* FusionInsights returned by DataFusionEngine.analyze
    score,       \* dict returned by CESCalculator.calculate
    phase,       \* "input": update received, "scored": analyze and calculate returned
    session,     \* provenance labels returned for the updates of the session so far
    user_id,     \* TelemetryRequest.user_id
    reply,       \* TelemetryResponse of POST /api/telemetry/analyze
    docker_available, \* whether docker.from_env().ping() succeeded at construction
    req,         \* ExecutionRequest and X-API-Key header of POST /execute,
                 \* or the arguments of a direct CodeExecutor.execute call
    pc,          \* position of the request handler
    executor,    \* executor selected from the registry ("none" before dispatch)
    containers,  \* state of every container created for this request, in creation order
    ec,          \* locals of the execute_code call in progress
    test_results,\* verdicts accumulated by execute_with_tests
    all_passed,  \* flag of execute_with_tests
    last_result, \* last per-test ExecutionResult of execute_with_tests
    result,      \* ExecutionResult returned to the endpoint
    runs,        \* every ExecutionResult returned by execute_code so far
    response,    \* HTTP response of the endpoint
    host_tmp,    \* files of the Docker host's /tmp, bound at /code by CodeExecutor
    calls,       \* two CodeExecutor.execute calls in progress on the same host
    harness_fn,  \* the validator or code preparation function being applied
    harness_in,  \* its argument
    harness_out  \* the values it returned, in call order

score_vars == <<metrics, insights, score, phase, session, user_id, reply>>
exec_vars  == <<docker_available, req, pc, executor, containers, ec, test_results, all_passed,
                last_result, result, runs, response>>
shared_vars == <<host_tmp, calls>>
harness_vars == <<harness_fn, harness_in, harness_out>>
vars       == <<score_vars, exec_vars, shared_vars, harness_vars>>

(***************************************************************************)
(* Exact rational arithmetic                                               *)
(***************************************************************************)
Abs(x) == IF x < 0 THEN -x ELSE x

RECURSIVE GCD(_, _)
GCD(a, b) == IF b = 0 THEN a ELSE GCD(b, a % b)

Norm(n, d) ==
    LET g == GCD(Abs(n), Abs(d))
        s == IF d < 0 THEN -1 ELSE 1
    IN  IF n = 0 THEN <<0, 1>> ELSE <<(s * n) \div g, (s * d) \div g>>

R(n) == <<n, 1>>
Frac(n, d) == Norm(n, d)

RAdd(a, b) ==
    LET g == GCD(a[2], b[2])
    IN  Norm(a[1] * (b[2] \div g) + b[1] * (a[2] \div g), a[2] * (b[2] \div g))
RNeg(a) == <<-a[1], a[2]>>
RSub(a, b) == RAdd(a, RNeg(b))
RMul(a, b) ==
    LET g1 == GCD(Abs(a[1]), b[2])
        g2 == GCD(Abs(b[1]), a[2])
        h1 == IF g1 = 0 THEN 1 ELSE g1
        h2 == IF g2 = 0 THEN 1 ELSE g2
    IN  Norm((a[1] \div h1) * (b[1] \div h2), (a[2] \div h2) * (b[2] \div h1))
RDiv(a, b) == RMul(a, IF b[1] < 0 THEN <<-b[2], -b[1]>> ELSE <<b[2], b[1]>>)
RLt(a, b) == RSub(a, b)[1] < 0
RLe(a, b) == RSub(a, b)[1] <= 0
RGt(a, b) == RLt(b, a)
RGe(a, b) == RLe(b, a)
RMax(a, b) == IF RLt(a, b) THEN b ELSE a
RMin(a, b) == IF RLt(b, a) THEN b ELSE a

(* Python round(x, ndigits) on a rational: nearest multiple of 10^-ndigits, *)
(* ties to even.  The quotient is built digit by digit to keep the          *)
(* intermediate products small.                                             *)
RECURSIVE ScaledFloor(_, _, _, _)
ScaledFloor(q, r, d, k) ==
    IF k = 0 THEN <<q, r>>
    ELSE ScaledFloor(q * 10 + ((r * 10) \div d), (r * 10) % d, d, k - 1)

Pow10(k) == IF k = 0 THEN 1 ELSE IF k = 1 THEN 10 ELSE IF k = 2 THEN 100
            ELSE IF k = 3 THEN 1000 ELSE 10000

round(x, ndigits) ==
    LET n  == x[1]
        d  == x[2]
        q0 == n \div d            \* floor, also for negative n
        r0 == n % d
        qr == ScaledFloor(q0, r0, d, ndigits)
        q  == qr[1]
        r  == qr[2]
        up == \/ 2 * r > d
              \/ (2 * r = d /\ q % 2 # 0)
    IN  Norm(IF up THEN q + 1 ELSE q, Pow10(ndigits))

(***************************************************************************)
(* DataFusionEngine                                                        *)
(***************************************************************************)
AUTHENTIC_REFACTORING == "Authentic Refactoring"
AMBIGUOUS_EDIT        == "Ambiguous Large Edit"
SUSPECTED_PASTE       == "Suspected External Paste"
SPAMMING              == "Spamming"

ACTIVE           == "Active"
REFLECTIVE_PAUSE == "Reflective Pause"
PASSIVE_IDLE     == "Passive Idle"
DISENGAGEMENT    == "Disengagement"

LARGE_INSERTION_THRESHOLD == 30
BURST_TYPING_MIN          == 50
BURST_TYPING_MAX          == 100
SPAM_KEYSTROKE_MINIMUM    == 200
SPAM_EFFICIENCY_THRESHOLD == Frac(5, 100)
REFLECTIVE_PAUSE_MIN      == 30
DISENGAGEMENT_THRESHOLD   == 120

(* Variant: the current pause subtracted without the floor at 0 *)
adjusted_idle_minutes_unfloored(m, cognitive) ==
    IF cognitive = REFLECTIVE_PAUSE
    THEN RSub(R(m.total_idle_minutes), Frac(m.current_idle_duration, 60))
    ELSE R(m.total_idle_minutes)

(* adjusted_idle_minutes: total_idle_minutes, less the current pause       *)
(* (current_idle_duration / 60) for a reflective pause                     *)
adjusted_idle_minutes(m, cognitive) ==
    IF cognitive = REFLECTIVE_PAUSE
    THEN RMax(R(0), RSub(R(m.total_idle_minutes), Frac(m.current_idle_duration, 60)))
    ELSE R(m.total_idle_minutes)

(* Variant: a suspected paste carries no penalty *)
SUSPECTED_PASTE_PENALTY_none == R(0)

(* integrity_penalty = 0.5 of both paste branches *)
SUSPECTED_PASTE_PENALTY == Frac(1, 2)

analyze(m) ==
    LET dur     == R(m.duration_minutes)
        raw_kpm == IF m.duration_minutes > 0
                   THEN RDiv(R(m.total_keystrokes), dur) ELSE R(0)
        large   == m.last_edit_size_chars > LARGE_INSERTION_THRESHOLD
        ratio   == IF m.last_edit_size_chars > 0
                   THEN Frac(m.recent_burst_size_chars, m.last_edit_size_chars)
                   ELSE R(0)
        paste1  == /\ large
                   /\ RLt(ratio, Frac(2, 10))
                   /\ m.focus_violation_count > 0
                   /\ m.last_edit_size_chars > 50
        prov1   == IF ~large THEN AUTHENTIC_REFACTORING
                   ELSE IF paste1 THEN SUSPECTED_PASTE
                   ELSE IF RGt(ratio, Frac(8, 10)) THEN AUTHENTIC_REFACTORING
                   ELSE AMBIGUOUS_EDIT
        pen1    == IF paste1 THEN SUSPECTED_PASTE_PENALTY ELSE R(0)
        efficiency_ratio ==
                   IF m.total_keystrokes > 50
                   THEN Frac(m.net_code_change, m.total_keystrokes) ELSE R(1)
        is_burst_typing ==
                   /\ BURST_TYPING_MIN <= m.recent_burst_size_chars
                   /\ m.recent_burst_size_chars <= BURST_TYPING_MAX
        paste2  == /\ m.net_code_change > 200
                   /\ RLt(R(m.total_keystrokes),
                          RMul(R(m.net_code_change), Frac(3, 10)))
                   /\ m.focus_violation_count > 1
                   /\ prov1 \notin {SUSPECTED_PASTE, SPAMMING}
        prov2   == IF paste2 THEN SUSPECTED_PASTE ELSE prov1
        pen2    == IF paste2 THEN SUSPECTED_PASTE_PENALTY ELSE pen1
        spam1   == /\ m.total_keystrokes > SPAM_KEYSTROKE_MINIMUM
                   /\ RLt(efficiency_ratio, SPAM_EFFICIENCY_THRESHOLD)
        spam2   == /\ ~spam1
                   /\ is_burst_typing
                   /\ RLt(efficiency_ratio, Frac(15, 100))
        effective_kpm == IF spam1 THEN R(0)
                         ELSE IF spam2 THEN RMul(raw_kpm, Frac(1, 2))
                         ELSE raw_kpm
        provenance    == IF spam1 \/ spam2 THEN SPAMMING ELSE prov2
        effective_ad  == IF m.duration_minutes > 0
                         THEN RDiv(R(m.total_run_attempts), dur) ELSE R(0)
        idle    == m.current_idle_duration > REFLECTIVE_PAUSE_MIN
        cognitive == IF ~idle THEN ACTIVE
                     ELSE IF ~m.is_window_focused THEN DISENGAGEMENT
                     ELSE IF m.last_run_was_error THEN REFLECTIVE_PAUSE
                     ELSE PASSIVE_IDLE
        effective_ir  == IF m.duration_minutes > 0
                         THEN RDiv(adjusted_idle_minutes(m, cognitive), dur) ELSE R(0)
    IN  [provenance_state  |-> provenance,
         cognitive_state   |-> cognitive,
         effective_kpm     |-> effective_kpm,
         effective_ad      |-> effective_ad,
         effective_ir      |-> effective_ir,
         integrity_penalty |-> pen2]

(***************************************************************************)
(* CESCalculator                                                           *)
(***************************************************************************)
MIN_KPM == R(5)
MAX_KPM == R(24)
MIN_AD  == Frac(5, 100)
MAX_AD  == Frac(50, 100)
MIN_IR  == R(0)
MAX_IR  == Frac(60, 100)
MIN_FVC == R(0)
MAX_FVC == R(10)

(* Variant: a heavier weight of the typing rate *)
W_KPM_half == Frac(50, 100)

W_KPM == Frac(35, 100)
W_AD  == Frac(25, 100)
W_FVC == Frac(25, 100)
W_IR  == Frac(15, 100)

(* Variant: min-max scaling without the clamp to [0, 1] *)
normalize_unclamped(value, min_val, max_val) ==
    IF RSub(max_val, min_val)[1] = 0 THEN R(0)
    ELSE RDiv(RSub(value, min_val), RSub(max_val, min_val))

normalize(value, min_val, max_val) ==
    IF RSub(max_val, min_val)[1] = 0 THEN R(0)
    ELSE RMax(R(0), RMin(R(1), RDiv(RSub(value, min_val), RSub(max_val, min_val))))

get_label(s) ==
    IF RGt(s, Frac(5, 10)) THEN "High Engagement"
    ELSE IF RGt(s, Frac(2, 10)) THEN "Moderate Engagement"
    ELSE IF RGt(s, R(0)) THEN "Low Engagement"
    ELSE "Disengaged/At-Risk"

clamp_ces(x) == RMax(R(-1), RMin(R(1), x))

(* Variant: the score reported on a percent scale *)
ces_value_percent(final_ces) == round(RMul(final_ces, R(100)), 2)

(* "ces": round(final_ces, 4) *)
ces_value(final_ces) == round(final_ces, 4)

calculate(m, ins) ==
    LET kpm_norm == normalize(ins.effective_kpm, MIN_KPM, MAX_KPM)
        ad_norm  == normalize(ins.effective_ad, MIN_AD, MAX_AD)
        ir_norm  == normalize(ins.effective_ir, MIN_IR, MAX_IR)
        fvc_norm == normalize(R(m.focus_violation_count), MIN_FVC, MAX_FVC)
        productive_score == RAdd(RMul(W_KPM, kpm_norm), RMul(W_AD, ad_norm))
        penalty_score    == RAdd(RMul(W_IR, ir_norm), RMul(W_FVC, fvc_norm))
        raw_ces   == RSub(RSub(productive_score, penalty_score), ins.integrity_penalty)
        final_ces == clamp_ces(raw_ces)
    IN  [kpm            |-> round(ins.effective_kpm, 2),
         ad             |-> round(ins.effective_ad, 4),
         ir             |-> round(ins.effective_ir, 2),
         ces            |-> ces_value(final_ces),
         classification |-> get_label(final_ces),
         unclamped      |-> raw_ces]

(***************************************************************************)
(* Telemetry inputs                                                        *)
(***************************************************************************)
DurationValues   == {0, 10, 20}
KeystrokeValues  == {0, 287, 600}
RunValues        == {0, 2, 5}
IdleValues       == {0, 6}
FvcValues        == {0, 1, 11}
NetChangeValues  == {0, 20, 300}
LastEditValues   == {0, 250}
BurstValues      == {0, 10}
IdleSecValues    == {0, 90, 400}

SessionMetricsSet ==
    [duration_minutes        : DurationValues,
     total_keystrokes        : KeystrokeValues,
     total_run_attempts      : RunValues,
     total_idle_minutes      : IdleValues,
     focus_violation_count   : FvcValues,
     net_code_change         : NetChangeValues,
     last_edit_size_chars    : LastEditValues,
     current_idle_duration   : IdleSecValues,
     is_window_focused       : BOOLEAN,
     last_run_was_error      : BOOLEAN,
     recent_burst_size_chars : BurstValues]

NoInsights == [provenance_state |-> "none", cognitive_state |-> "none",
               effective_kpm |-> R(0), effective_ad |-> R(0), effective_ir |-> R(0),
               integrity_penalty |-> R(0)]

None    == "None"                              \* header or value absent

(***************************************************************************)
(* POST /api/telemetry/analyze                                             *)
(***************************************************************************)
(* user_id values: the development placeholder, an id without a row in the *)
(* users table, a student and an instructor                                *)
UserIds == {"unknown", "no-such-user", "student-1", "instructor-1"}

(* db.query(User).filter(User.id == user_id).first().account_type *)
account_type(u) ==
    IF u = "student-1" THEN "student"
    ELSE IF u = "instructor-1" THEN "instructor"
    ELSE None

skips_processing(u) ==
    /\ u # "" /\ u # "unknown"
    /\ account_type(u) # None
    /\ account_type(u) # "student"

TelemetryResponse(kpm, ad, ir, fvc, ces, ces_classification, provenance_state, cognitive_state, effective_kpm, effective_ad, effective_ir, integrity_penalty) ==
    [kpm |-> kpm, ad |-> ad, ir |-> ir, fvc |-> fvc, ces |-> ces,
     ces_classification |-> ces_classification,
     provenance_state |-> provenance_state, cognitive_state |-> cognitive_state,
     effective_kpm |-> effective_kpm, effective_ad |-> effective_ad,
     effective_ir |-> effective_ir, integrity_penalty |-> integrity_penalty]

NoReply == TelemetryResponse(R(0), R(0), R(0), 0, R(0), "none", "none", "none",
                             R(0), R(0), R(0), R(0))

analyze_telemetry(u, m) ==
    IF skips_processing(u)
    THEN TelemetryResponse(R(0), R(0), R(0), 0, R(0), "Not Applicable",
                           "instructor", "instructor", R(0), R(0), R(0), R(0))
    ELSE LET fusion_insights == analyze(m)
             ces_result      == calculate(m, fusion_insights)
         IN  TelemetryResponse(ces_result.kpm, ces_result.ad, ces_result.ir,
                               m.focus_violation_count, ces_result.ces,
                               ces_result.classification,
                               fusion_insights.provenance_state,
                               fusion_insights.cognitive_state,
                               fusion_insights.effective_kpm,
                               fusion_insights.effective_ad,
                               fusion_insights.effective_ir,
                               fusion_insights.integrity_penalty)

NoScore == [kpm |-> R(0), ad |-> R(0), ir |-> R(0), ces |-> R(0),
            classification |-> "none", unclamped |-> R(0)]


(***************************************************************************)
(* Execution service: requests                                             *)
(***************************************************************************)
MaxTests == 2

API_KEY == "dev-key-change-in-production"
KeyValues == {API_KEY, "wrong-key", None}

(* Keys of the registry of main.py, in order; empty when an executor could *)
(* not reach Docker at start-up.                                           *)
EXECUTORS == IF docker_available THEN <<"java", "python">> ELSE <<>>

LANGUAGE_CONFIGS == {"python", "java"}         \* CodeExecutor.LANGUAGE_CONFIGS
LanguageValues == {"python", "PYTHON", "java", "ruby"}

(* str.lower() on the tokens of the model *)
lower(s) == IF s = "PYTHON" THEN "python"
            ELSE IF s \in {"None", "NONE"} THEN "none"
            ELSE IF s = "Error:" THEN "error:"
            ELSE s

lower_text(text) == [k \in 1..Len(text) |-> lower(text[k])]

(* Text is a sequence of tokens; " " and "\n" are whitespace tokens *)
Whitespace == {" ", "\n"}

RECURSIVE lstrip(_)
lstrip(s) == IF s # <<>> /\ Head(s) \in Whitespace THEN lstrip(Tail(s)) ELSE s

RECURSIVE rstrip(_)
rstrip(s) == IF s # <<>> /\ s[Len(s)] \in Whitespace
             THEN rstrip(SubSeq(s, 1, Len(s) - 1)) ELSE s

(* Variant: only leading whitespace removed *)
strip_leading(s) == lstrip(s)

strip(s) == rstrip(lstrip(s))

TestCaseSet ==
    { [input |-> "5, 3", expected_output |-> <<"8">>],
      [input |-> "4, 4", expected_output |-> <<"8", "\n">>],
      [input |-> "",     expected_output |-> <<"0">>] }

TestLists == UNION { [1..n -> TestCaseSet] : n \in 0..MaxTests }

(* Shapes of the submitted source that the wrapper generators tell apart *)
CodeValues == {"solution_with_method", "solution_without_method", "no_solution"}

(* ExecutionRequest.timeout (1..60 when supplied) and the timeout argument *)
(* of CodeExecutor.execute; NoTimeout: not supplied, the default applies   *)
NoTimeout     == 0
TimeoutValues == {NoTimeout, 2}

(* POST /execute of the execution service *)
EndpointRequests ==
    [via        : {"endpoint"},
     timeout    : TimeoutValues,
     x_api_key  : KeyValues,
     language   : LanguageValues,
     code       : CodeValues,
     test_cases : TestLists]

(* CodeExecutor.execute called directly: no header, no wrapper generation *)
CodeExecutorCalls ==
    [via        : {"CodeExecutor"},
     timeout    : TimeoutValues,
     x_api_key  : {None},
     language   : {"PYTHON", "ruby"},
     code       : {"solution_with_method"},
     test_cases : TestLists]

Requests == EndpointRequests \cup CodeExecutorCalls

(***************************************************************************)
(* ExecutionResult                                                         *)
(***************************************************************************)
DEFAULT_EXIT_CODE == 0

ExecutionResult(status, output, error, execution_time, exit_code) ==
    [status |-> status, output |-> output, error |-> error,
     execution_time |-> execution_time, exit_code |-> exit_code,
     test_results |-> <<>>]

NoResult == ExecutionResult("none", <<>>, "", 0, 0)

(* Ceiling of container.wait: self.timeout of the Python and Java          *)
(* executors, the default of the timeout parameter of CodeExecutor.execute *)
TIMEOUT == [python |-> 5, java |-> 10, CodeExecutor |-> 30]

(* What the sandboxed program can do in the model *)
ExitCodes   == {0, 1}
StdoutSet   == {<<"8", "\n">>, <<"0">>, <<"Exception", "\n">>}
NormalTimes == {1}
CleanupDelays == {0, 1}

NoEc == [exit_code |-> 0, stdout |-> <<>>, elapsed |-> 0, exc |-> "none"]

(* JavaExecutor._prepare_code: the guidance programs, which print to       *)
(* System.err and exit 1; the container command merges stderr into stdout  *)
NO_SOLUTION_HINT == " Please define a Solution class with your methods."
NO_METHOD_HINT   == " Solution class found but no methods defined."

guidance_output(code) ==
    <<"Error:", IF code = "no_solution" THEN NO_SOLUTION_HINT ELSE NO_METHOD_HINT,
      "\n">>

(* What the program in the container exits with and prints: fixed for the  *)
(* Java guidance programs of a plain run, open for a student program       *)
ProgramOutcomes(language, code, with_tests) ==
    IF language = "java" /\ ~with_tests /\ code # "solution_with_method"
    THEN {[exit_code |-> 1, stdout |-> guidance_output(code)]}
    ELSE [exit_code : ExitCodes, stdout : StdoutSet]

(***************************************************************************)
(* validators: create_test_code / create_java_test_code                    *)
(* Both return (code, error); the error depends on the source only.        *)
(***************************************************************************)
create_test_code(language, code) ==
    IF language = "java"
    THEN IF code = "no_solution"
         THEN "No Solution class found in code. Please define a class Solution with your methods."
         ELSE IF code = "solution_without_method"
         THEN "No method found in Solution class. Please add a public method."
         ELSE None
    ELSE IF code = "solution_without_method" THEN "No method found in Solution class"
         ELSE IF code = "no_solution" THEN "No function definition found in code"
         ELSE None

(***************************************************************************)
(* execute_with_tests: verdicts and aggregate                              *)
(***************************************************************************)
Verdict(n, passed, tc, expected, actual, error) ==
    [test_number |-> n, passed |-> passed, input |-> tc.input,
     expected_output |-> expected, actual_output |-> actual, error |-> error]

(* Variant: the verdict numbered with the loop index instead of index + 1 *)
run_verdict_zero_based(n, tc, res) ==
    LET expected == strip(tc.expected_output)
        actual   == strip(res.output)
        passed   == (actual = expected) /\ res.status = "success"
    IN  Verdict(n - 1, passed, tc, expected, actual,
                IF res.error # "" THEN res.error ELSE None)

run_verdict(n, tc, res) ==
    LET expected == strip(tc.expected_output)
        actual   == strip(res.output)
        passed   == (actual = expected) /\ res.status = "success"
    IN  Verdict(n, passed, tc, expected, actual,
                IF res.error # "" THEN res.error ELSE None)

wrapper_error_verdict(n, tc, error) ==
    Verdict(n, FALSE, tc, strip(tc.expected_output), <<>>, error)

(* Variant: the aggregate status taken from the last run alone *)
aggregate_last_run(last, passed_all, verdicts) ==
    IF last # NoResult
    THEN [last EXCEPT !.test_results = verdicts,
                      !.status = IF last.status = "success" THEN "success"
                                 ELSE "failed_tests",
                      !.error  = IF passed_all THEN "" ELSE last.error]
    ELSE [ExecutionResult("error", <<>>, "No valid test cases executed",
                          0, DEFAULT_EXIT_CODE)
          EXCEPT !.test_results = verdicts]

(* Variant: only the failed verdicts are reported *)
aggregate_failures_only(last, passed_all, verdicts) ==
    IF last # NoResult
    THEN [last EXCEPT !.test_results = SelectSeq(verdicts, LAMBDA v : ~v.passed),
                      !.status = IF passed_all THEN "success" ELSE "failed_tests",
                      !.error  = IF passed_all THEN "" ELSE last.error]
    ELSE [ExecutionResult("error", <<>>, "No valid test cases executed",
                          0, DEFAULT_EXIT_CODE)
          EXCEPT !.test_results = verdicts]

aggregate(last, passed_all, verdicts) ==
    IF last # NoResult
    THEN [last EXCEPT !.test_results = verdicts,
                      !.status = IF passed_all THEN "success" ELSE "failed_tests",
                      !.error  = IF passed_all THEN "" ELSE last.error]
    ELSE [ExecutionResult("error", <<>>, "No valid test cases executed",
                          0, DEFAULT_EXIT_CODE)
          EXCEPT !.test_results = verdicts]

RECURSIVE SumTimes(_)
SumTimes(rs) == IF rs = <<>> THEN 0 ELSE Head(rs).execution_time + SumTimes(Tail(rs))

(* CodeExecutor._execute_with_tests: a new result, total_time summed over   *)
(* the per-test results                                                    *)
code_executor_aggregate(last, passed_all, verdicts, total_time) ==
    IF last # NoResult
    THEN [ExecutionResult(IF passed_all THEN "success" ELSE "failed_tests",
                          last.output, IF passed_all THEN "" ELSE last.error,
                          total_time, IF passed_all THEN 0 ELSE 1)
          EXCEPT !.test_results = verdicts]
    ELSE [ExecutionResult("error", <<>>, "No test cases executed", 0, -1)
          EXCEPT !.test_results = verdicts]

(***************************************************************************)
(* execute_code: result classification                                     *)
(***************************************************************************)
Contains(out, tokens) == \E k \in 1..Len(out) : out[k] \in tokens

(* error = output + "\n" + error_output: named by the guidance line it     *)
(* carries, if any                                                         *)
output_as_error(stdout) ==
    IF Contains(stdout, {NO_SOLUTION_HINT})
    THEN "Error: Please define a Solution class with your methods."
    ELSE IF Contains(stdout, {NO_METHOD_HINT})
    THEN "Error: Solution class found but no methods defined."
    ELSE "compiler output"

classify(language, exit_code, stdout, execution_time) ==
    IF language = "java"
    THEN IF Contains(stdout, {".java:"}) \/ Contains(lower_text(stdout), {"error:"})
         THEN ExecutionResult("error", <<>>, output_as_error(stdout), execution_time, 1)
         ELSE IF Contains(stdout, {"Runtime Error:", "Exception"})
         THEN ExecutionResult("error", <<>>, "program output", execution_time, exit_code)
         ELSE ExecutionResult(IF exit_code = 0 THEN "success" ELSE "error",
                              stdout, "", execution_time, exit_code)
    ELSE ExecutionResult(IF exit_code = 0 THEN "success" ELSE "error",
                         stdout, IF exit_code = 0 THEN "" ELSE "Traceback",
                         execution_time, exit_code)

(* Result built by the except clauses around the container calls *)
infrastructure_error(exc, execution_time) ==
    IF exc = "ContainerError"
    THEN ExecutionResult("error", <<>>, "Container execution failed", execution_time,
                         DEFAULT_EXIT_CODE)
    ELSE IF exc = "ImageNotFound"
    THEN ExecutionResult("error", <<>>, "environment not available", 0, DEFAULT_EXIT_CODE)
    ELSE ExecutionResult("error", <<>>, "Unexpected error", execution_time,
                         DEFAULT_EXIT_CODE)

timeout_result(execution_time) ==
    ExecutionResult("timeout", <<>>, "Execution exceeded time limit", execution_time,
                    DEFAULT_EXIT_CODE)

(* Handler of a failed container.wait, after stop and remove succeeded *)
wait_failure_result(language, execution_time) ==
    IF language = "python"
    THEN IF execution_time >= TIMEOUT[language]
         THEN timeout_result(execution_time)
         ELSE infrastructure_error("Exception", execution_time)
    ELSE timeout_result(execution_time)

(***************************************************************************)
(* CodeExecutor.execute: results                                           *)
(***************************************************************************)
code_executor_error(error, execution_time) ==
    ExecutionResult("error", <<>>, error, execution_time, -1)

code_executor_exception(exc, execution_time) ==
    IF exc = "ImageNotFound"
    THEN code_executor_error("Docker image not found", 0)
    ELSE code_executor_error("Execution failed", execution_time)

code_executor_timeout(execution_time) ==
    ExecutionResult("timeout", <<>>, "Execution timed out", execution_time, -1)

code_executor_classify(exit_code, stdout, execution_time) ==
    ExecutionResult(IF exit_code = 0 THEN "success" ELSE "error",
                    stdout, IF exit_code = 0 THEN "" ELSE "Traceback",
                    execution_time, exit_code)

(***************************************************************************)
(* POST /execute                                                           *)
(***************************************************************************)
(* Variant: the key is compared only when the header is present *)
auth_failed_if_present(x_api_key) == x_api_key # None /\ x_api_key # API_KEY

auth_failed(x_api_key) == x_api_key # API_KEY

(* Variant: the registry looked up with the tag as sent *)
registry_get_exact(language) ==
    IF \E k \in 1..Len(EXECUTORS) : EXECUTORS[k] = language
    THEN language ELSE "none"

registry_get(language) ==
    IF \E k \in 1..Len(EXECUTORS) : EXECUTORS[k] = lower(language)
    THEN lower(language) ELSE "none"

NoResponse == [http |-> 0, detail |-> "", success |-> FALSE, status |-> "none",
               output |-> <<>>, error |-> "", supported |-> <<>>,
               execution_time |-> 0, exit_code |-> 0, test_results |-> <<>>]

unauthorized_response(x_api_key) ==
    [NoResponse EXCEPT !.http = 401, !.detail = "Invalid or missing API key"]

unsupported_response(language) ==
    [NoResponse EXCEPT !.http = 200, !.status = "error",
                       !.error = "Unsupported language", !.supported = EXECUTORS,
                       !.exit_code = -1]

RECURSIVE SumElapsed(_)
SumElapsed(rs) == IF rs = <<>> THEN 0 ELSE Head(rs).elapsed + SumElapsed(Tail(rs))

execution_response(res, wall_time) ==
    [NoResponse EXCEPT !.http = 200, !.success = (res.status = "success"),
                       !.status = res.status, !.output = res.output,
                       !.error = res.error, !.execution_time = wall_time,
                       !.exit_code = res.exit_code,
                       !.test_results = res.test_results]

ParkedHarness ==
    /\ harness_fn = "none"
    /\ harness_in = <<>>
    /\ harness_out = <<>>

(* Source files CodeExecutor.execute writes under /code *)
FileNames == {"main.py", "Solution.java"}
NoFiles   == [f \in FileNames |-> None]

Init ==
    /\ metrics = [duration_minutes |-> 0]
    /\ insights = NoInsights
    /\ score = NoScore
    /\ phase = "off"
    /\ session = <<>>
    /\ user_id = "unknown"
    /\ reply = NoReply
    /\ docker_available \in BOOLEAN
    /\ req \in Requests
    /\ pc = "entry"
    /\ executor = "none"
    /\ containers = <<>>
    /\ ec = NoEc
    /\ test_results = <<>>
    /\ all_passed = TRUE
    /\ last_result = NoResult
    /\ result = NoResult
    /\ runs = <<>>
    /\ response = NoResponse
    /\ host_tmp = NoFiles
    /\ calls = <<>>
    /\ ParkedHarness

WithTests == req.test_cases # <<>>
NextTest  == Len(test_results) + 1
Legacy    == executor = "CodeExecutor"

(* The timeout passed to container.wait: self.timeout of the selected      *)
(* executor; the timeout argument in CodeExecutor.execute                  *)
wait_timeout ==
    IF Legacy /\ req.timeout # NoTimeout THEN req.timeout ELSE TIMEOUT[executor]

(* The result of an exception caught by the outer handlers of the run *)
exception_result(exc, execution_time) ==
    IF Legacy THEN code_executor_exception(exc, execution_time)
    ELSE infrastructure_error(exc, execution_time)

(* execute_code returns res to its caller: execute_with_tests records the  *)
(* verdict of the current test, the endpoint takes the result as it is.    *)
Return(res, elapsed, infra) ==
    /\ runs' = Append(runs, [status |-> res.status, execution_time |-> res.execution_time,
                             exit_code |-> res.exit_code, output |-> res.output,
                             elapsed |-> elapsed, infra |-> infra,
                             timeout |-> wait_timeout])
    /\ ec' = NoEc
    /\ IF WithTests
       THEN /\ test_results' = Append(test_results,
                                      run_verdict(NextTest, req.test_cases[NextTest], res))
            /\ all_passed' = (all_passed /\ test_results'[NextTest].passed)
            /\ last_result' = res
            /\ pc' = "tests_loop"
            /\ UNCHANGED result
       ELSE /\ result' = res
            /\ pc' = IF Legacy THEN "done" ELSE "respond"
            /\ UNCHANGED <<test_results, all_passed, last_result>>

SetLast(cs, st) == [cs EXCEPT ![Len(cs)] = st]

(* main.py execute_code: the API key check *)
RejectUnauthorized ==
    /\ pc = "entry"
    /\ req.via = "endpoint"
    /\ auth_failed(req.x_api_key)
    /\ response' = unauthorized_response(req.x_api_key)
    /\ pc' = "done"
    /\ UNCHANGED <<docker_available, req, executor, containers, ec, test_results, all_passed,
                   last_result, result, runs>>
    /\ UNCHANGED <<score_vars, shared_vars, harness_vars>>

(* main.py execute_code: no executor registered for the tag *)
RejectUnsupported ==
    /\ pc = "entry"
    /\ req.via = "endpoint"
    /\ ~auth_failed(req.x_api_key)
    /\ registry_get(req.language) = "none"
    /\ response' = unsupported_response(req.language)
    /\ pc' = "done"
    /\ UNCHANGED <<docker_available, req, executor, containers, ec, test_results, all_passed,
                   last_result, result, runs>>
    /\ UNCHANGED <<score_vars, shared_vars, harness_vars>>

(* main.py execute_code: dispatch to execute_with_tests or execute_code *)
Dispatch ==
    /\ pc = "entry"
    /\ req.via = "endpoint"
    /\ ~auth_failed(req.x_api_key)
    /\ registry_get(req.language) # "none"
    /\ executor' = registry_get(req.language)
    /\ pc' = IF WithTests THEN "tests_loop" ELSE "ec_run"
    /\ UNCHANGED <<docker_available, req, containers, ec, test_results, all_passed,
                   last_result, result, runs, response>>
    /\ UNCHANGED <<score_vars, shared_vars, harness_vars>>

(* CodeExecutor.execute: test cases go to _execute_with_tests first *)
CodeExecutorExecute ==
    /\ pc = "entry"
    /\ req.via = "CodeExecutor"
    /\ executor' = "CodeExecutor"
    /\ pc' = IF WithTests THEN "tests_loop" ELSE "ce_create"
    /\ UNCHANGED <<docker_available, req, containers, ec, test_results, all_passed,
                   last_result, result, runs, response>>
    /\ UNCHANGED <<score_vars, shared_vars, harness_vars>>

(* CodeExecutor.execute without test cases: the client and language checks, *)
(* then containers.create, put_archive and start                           *)
CodeExecutorCreate ==
    /\ pc = "ce_create"
    /\ IF ~docker_available
       THEN /\ Return(code_executor_error("Docker is not available", 0), 0, TRUE)
            /\ UNCHANGED containers
       ELSE IF lower(req.language) \notin LANGUAGE_CONFIGS
       THEN /\ Return(code_executor_error("Unsupported language", 0), 0, FALSE)
            /\ UNCHANGED containers
       ELSE \/ /\ containers' = Append(containers, "running")
               /\ pc' = "ec_wait"
               /\ UNCHANGED <<ec, test_results, all_passed, last_result, result, runs>>
            \/ /\ \E exc \in {"ImageNotFound", "APIError"} :
                     Return(code_executor_exception(exc, 0), 0, TRUE)
               /\ UNCHANGED containers
            \/ /\ containers' = Append(containers, "created")
               /\ Return(code_executor_exception("APIError", 0), 0, TRUE)
    /\ UNCHANGED <<docker_available, req, executor, response>>
    /\ UNCHANGED <<score_vars, shared_vars, harness_vars>>

(* execute_with_tests: wrapper generation fails for the current test *)
WrapperError ==
    /\ pc = "tests_loop"
    /\ ~Legacy
    /\ NextTest <= Len(req.test_cases)
    /\ create_test_code(executor, req.code) # None
    /\ test_results' = Append(test_results,
                              wrapper_error_verdict(NextTest, req.test_cases[NextTest],
                                                    create_test_code(executor, req.code)))
    /\ all_passed' = FALSE
    /\ UNCHANGED <<docker_available, req, pc, executor, containers, ec, last_result, result, runs, response>>
    /\ UNCHANGED <<score_vars, shared_vars, harness_vars>>

(* execute_with_tests: the wrapper of the current test is handed to execute_code *)
StartTest ==
    /\ pc = "tests_loop"
    /\ NextTest <= Len(req.test_cases)
    /\ Legacy \/ create_test_code(executor, req.code) = None
    /\ pc' = IF Legacy THEN "ce_create" ELSE "ec_run"
    /\ UNCHANGED <<docker_available, req, executor, containers, ec, test_results, all_passed,
                   last_result, result, runs, response>>
    /\ UNCHANGED <<score_vars, shared_vars, harness_vars>>

(* execute_with_tests: after the loop *)
Aggregate ==
    /\ pc = "tests_loop"
    /\ NextTest > Len(req.test_cases)
    /\ result' = IF Legacy
                  THEN code_executor_aggregate(last_result, all_passed, test_results,
                                               SumTimes(runs))
                  ELSE aggregate(last_result, all_passed, test_results)
    /\ pc' = IF Legacy THEN "done" ELSE "respond"
    /\ UNCHANGED <<docker_available, req, executor, containers, ec, test_results, all_passed,
                   last_result, runs, response>>
    /\ UNCHANGED <<score_vars, shared_vars, harness_vars>>

(* execute_code: client.containers.run(detach=True) *)
ContainersRun ==
    /\ pc = "ec_run"
    /\ \/ /\ containers' = Append(containers, "running")
          /\ pc' = "ec_wait"
          /\ UNCHANGED <<ec, test_results, all_passed, last_result, result, runs>>
       \/ /\ \E exc \in {"ContainerError", "ImageNotFound", "APIError"} :
                Return(infrastructure_error(exc, 0), 0, TRUE)
          /\ UNCHANGED containers
    /\ UNCHANGED <<docker_available, req, executor, response>>
    /\ UNCHANGED <<score_vars, shared_vars, harness_vars>>

(* execute_code: container.wait(timeout=self.timeout) *)
Wait ==
    /\ pc = "ec_wait"
    /\ \/ \E o \in ProgramOutcomes(executor, req.code, WithTests), t \in NormalTimes :
            /\ t < wait_timeout
            /\ ec' = [exit_code |-> o.exit_code, stdout |-> o.stdout,
                      elapsed |-> t, exc |-> "none"]
            /\ containers' = SetLast(containers, "exited")
            /\ pc' = "ec_logs"
       \/ /\ ec' = [NoEc EXCEPT !.elapsed = wait_timeout, !.exc = "ReadTimeout"]
          /\ pc' = "ec_stop"
          /\ UNCHANGED containers
       \/ /\ ec' = [NoEc EXCEPT !.elapsed = 1, !.exc = "APIError"]
          /\ pc' = "ec_stop"
          /\ UNCHANGED containers
    /\ UNCHANGED <<docker_available, req, executor, test_results, all_passed, last_result, result,
                   runs, response>>
    /\ UNCHANGED <<score_vars, shared_vars, harness_vars>>

(* execute_code, wait failed: container.stop(timeout=0) *)
StopAfterWaitFailure ==
    /\ pc = "ec_stop"
    /\ \/ /\ containers' = SetLast(containers, "exited")
          /\ pc' = "ec_remove_stopped"
          /\ UNCHANGED <<ec, test_results, all_passed, last_result, result, runs>>
       \/ /\ Return(exception_result("APIError", ec.elapsed), ec.elapsed, TRUE)
          /\ UNCHANGED containers
    /\ UNCHANGED <<docker_available, req, executor, response>>
    /\ UNCHANGED <<score_vars, shared_vars, harness_vars>>

(* execute_code, wait failed: container.remove(force=True), then the result *)
RemoveAfterWaitFailure ==
    /\ pc = "ec_remove_stopped"
    /\ \/ \E d \in CleanupDelays :
            /\ containers' = SetLast(containers, "removed")
            /\ Return(IF Legacy THEN code_executor_timeout(ec.elapsed + d)
                      ELSE wait_failure_result(executor, ec.elapsed + d),
                      ec.elapsed + d, ec.exc # "ReadTimeout")
       \/ /\ Return(exception_result("APIError", ec.elapsed), ec.elapsed, TRUE)
          /\ UNCHANGED containers
    /\ UNCHANGED <<docker_available, req, executor, response>>
    /\ UNCHANGED <<score_vars, shared_vars, harness_vars>>

(* execute_code: container.logs(...) for stdout and stderr *)
Logs ==
    /\ pc = "ec_logs"
    /\ \/ /\ pc' = "ec_remove"
          /\ UNCHANGED <<ec, test_results, all_passed, last_result, result, runs>>
       \/ Return(exception_result("APIError", ec.elapsed), ec.elapsed, TRUE)
    /\ UNCHANGED <<docker_available, req, executor, containers, response>>
    /\ UNCHANGED <<score_vars, shared_vars, harness_vars>>

(* execute_code: container.remove(force=True), then the classification *)
Remove ==
    /\ pc = "ec_remove"
    /\ \/ /\ containers' = SetLast(containers, "removed")
          /\ Return(IF Legacy
                    THEN code_executor_classify(ec.exit_code, ec.stdout, ec.elapsed)
                    ELSE classify(executor, ec.exit_code, ec.stdout, ec.elapsed),
                    ec.elapsed, FALSE)
       \/ /\ Return(exception_result("APIError", ec.elapsed), ec.elapsed, TRUE)
          /\ UNCHANGED containers
    /\ UNCHANGED <<docker_available, req, executor, response>>
    /\ UNCHANGED <<score_vars, shared_vars, harness_vars>>

(* main.py execute_code: the ExecutionResponse *)
Respond ==
    /\ pc = "respond"
    /\ response' = execution_response(result, SumElapsed(runs))
    /\ pc' = "done"
    /\ UNCHANGED <<docker_available, req, executor, containers, ec, test_results, all_passed,
                   last_result, result, runs>>
    /\ UNCHANGED <<score_vars, shared_vars, harness_vars>>

Next ==
    \/ RejectUnauthorized
    \/ RejectUnsupported
    \/ Dispatch
    \/ CodeExecutorExecute
    \/ CodeExecutorCreate
    \/ WrapperError
    \/ StartTest
    \/ Aggregate
    \/ ContainersRun
    \/ Wait
    \/ StopAfterWaitFailure
    \/ RemoveAfterWaitFailure
    \/ Logs
    \/ Remove
    \/ Respond

Spec == Init /\ [][Next]_vars

(***************************************************************************)
(* POST /api/telemetry/analyze: one update is scored                       *)
(***************************************************************************)
ScoreInit ==
    /\ metrics \in SessionMetricsSet
    /\ insights = NoInsights
    /\ score    = NoScore
    /\ phase    = "input"
    /\ session  = <<>>
    /\ user_id  = "unknown"
    /\ reply    = NoReply
    /\ docker_available = FALSE
    /\ req = [x_api_key |-> None]
    /\ pc = "off"
    /\ executor = "none"
    /\ containers = <<>>
    /\ ec = NoEc
    /\ test_results = <<>>
    /\ all_passed = TRUE
    /\ last_result = NoResult
    /\ result = NoResult
    /\ runs = <<>>
    /\ response = NoResponse
    /\ host_tmp = NoFiles
    /\ calls = <<>>
    /\ ParkedHarness

(* analyze_telemetry: the user lookup, then DataFusionEngine.analyze and   *)
(* CESCalculator.calculate; an account that is not a student gets the      *)
(* minimal response without processing                                     *)
AnalyzeTelemetry ==
    /\ phase = "input"
    /\ IF skips_processing(user_id)
       THEN UNCHANGED <<insights, score>>
       ELSE /\ insights' = analyze(metrics)
            /\ score'    = calculate(metrics, analyze(metrics))
    /\ reply'    = analyze_telemetry(user_id, metrics)
    /\ session'  = Append(session, analyze_telemetry(user_id, metrics).provenance_state)
    /\ phase'    = "scored"
    /\ UNCHANGED <<metrics, user_id>>
    /\ UNCHANGED <<exec_vars, shared_vars, harness_vars>>

ScoreNext == AnalyzeTelemetry

SpecScore == ScoreInit /\ [][ScoreNext]_vars

(***************************************************************************)
(* A session: successive telemetry updates, each analysed on its own       *)
(***************************************************************************)
MaxUpdates == 2

(* Updates of a session ten minutes old, window focused, no idle time *)
SessionUpdates ==
    [duration_minutes        : {10},
     total_keystrokes        : {20, 600},
     total_run_attempts      : {0},
     total_idle_minutes      : {0},
     focus_violation_count   : {0, 2},
     net_code_change         : {20, 300},
     last_edit_size_chars    : {0, 20, 250},
     current_idle_duration   : {0},
     is_window_focused       : {TRUE},
     last_run_was_error      : {FALSE},
     recent_burst_size_chars : {0, 60}]

SessionInit ==
    /\ metrics \in SessionUpdates
    /\ insights = NoInsights
    /\ score    = NoScore
    /\ phase    = "input"
    /\ session  = <<>>
    /\ user_id \in UserIds
    /\ reply    = NoReply
    /\ docker_available = FALSE
    /\ req = [x_api_key |-> None]
    /\ pc = "off"
    /\ executor = "none"
    /\ containers = <<>>
    /\ ec = NoEc
    /\ test_results = <<>>
    /\ all_passed = TRUE
    /\ last_result = NoResult
    /\ result = NoResult
    /\ runs = <<>>
    /\ response = NoResponse
    /\ host_tmp = NoFiles
    /\ calls = <<>>
    /\ ParkedHarness

(* The frontend posts the next update: the cumulative counters never decrease *)
ReceiveUpdate ==
    /\ phase = "scored"
    /\ Len(session) < MaxUpdates
    /\ \E m \in SessionUpdates :
          /\ m.total_keystrokes >= metrics.total_keystrokes
          /\ m.focus_violation_count >= metrics.focus_violation_count
          /\ metrics' = m
    /\ phase' = "input"
    /\ UNCHANGED <<insights, score, session, user_id, reply>>
    /\ UNCHANGED <<exec_vars, shared_vars, harness_vars>>

SessionNext ==
    \/ AnalyzeTelemetry
    \/ ReceiveUpdate

SpecSession == SessionInit /\ [][SessionNext]_vars

(***************************************************************************)
(* CodeExecutor.execute: two calls on one Docker host                      *)
(* Every container is created with volumes {'/tmp': bind '/code', rw}, so  *)
(* /code of every container is the host directory /tmp.                    *)
(***************************************************************************)
Callers     == 1..2
SourceTexts == {"source_a", "source_b", "source_c"}

source_file(language) == IF language = "python" THEN "main.py" ELSE "Solution.java"

SharedInit ==
    /\ metrics = [duration_minutes |-> 0]
    /\ insights = NoInsights
    /\ score = NoScore
    /\ phase = "off"
    /\ session = <<>>
    /\ user_id = "unknown"
    /\ reply = NoReply
    /\ docker_available = TRUE
    /\ req = [x_api_key |-> None]
    /\ pc = "off"
    /\ executor = "none"
    /\ containers = <<>>
    /\ ec = NoEc
    /\ test_results = <<>>
    /\ all_passed = TRUE
    /\ last_result = NoResult
    /\ result = NoResult
    /\ runs = <<>>
    /\ response = NoResponse
    /\ host_tmp = NoFiles
    /\ calls \in [Callers -> [language : LANGUAGE_CONFIGS, code : SourceTexts,
                              at : {"create"}, ran : {None}, sees : {NoFiles}]]
    /\ ParkedHarness

(* client.containers.create(..., volumes={'/tmp': {'bind': '/code', 'mode': 'rw'}}) *)
ContainersCreate(i) ==
    /\ calls[i].at = "create"
    /\ calls' = [calls EXCEPT ![i].at = "put_archive"]
    /\ UNCHANGED <<host_tmp, score_vars, exec_vars, harness_vars>>

(* container.put_archive('/code', tar of main.py or Solution.java) *)
PutArchive(i) ==
    /\ calls[i].at = "put_archive"
    /\ host_tmp' = [host_tmp EXCEPT ![source_file(calls[i].language)] = calls[i].code]
    /\ calls' = [calls EXCEPT ![i].at = "start"]
    /\ UNCHANGED <<score_vars, exec_vars, harness_vars>>

(* container.start(): the command runs the file found under /code *)
ContainerStart(i) ==
    /\ calls[i].at = "start"
    /\ calls' = [calls EXCEPT ![i].at = "wait",
                              ![i].ran = host_tmp[source_file(calls[i].language)],
                              ![i].sees = host_tmp]
    /\ UNCHANGED <<host_tmp, score_vars, exec_vars, harness_vars>>

(* container.wait, logs, remove(force=True): the files stay in the host's /tmp *)
WaitAndRemove(i) ==
    /\ calls[i].at = "wait"
    /\ calls' = [calls EXCEPT ![i].at = "returned"]
    /\ UNCHANGED <<host_tmp, score_vars, exec_vars, harness_vars>>

SharedNext ==
    \E i \in Callers :
        \/ ContainersCreate(i)
        \/ PutArchive(i)
        \/ ContainerStart(i)
        \/ WaitAndRemove(i)

SpecShared == SharedInit /\ [][SharedNext]_vars

(***************************************************************************)
(* Validators: strip_user_main_method (Java), strip_user_main_block        *)
(* (Python). A source is a sequence of tokens.                             *)
(***************************************************************************)
MaxSource == 4

SeqsUpTo(S, n) == UNION { [1..k -> S] : k \in 0..n }

First(code, tokens) ==
    IF \E k \in 1..Len(code) : code[k] \in tokens
    THEN CHOOSE k \in 1..Len(code) :
            code[k] \in tokens /\ \A j \in 1..(k - 1) : code[j] \notin tokens
    ELSE 0

(* Java: the text matched by main_start_pattern, a string literal that     *)
(* holds a closing brace, and what is left of that literal after the brace *)
CLASS_START  == "class Solution {"
MAIN_START   == "public static void main(String[] args) {"
BRACE_LITERAL == "\"}\""
LITERAL_TAIL == "\""
JavaTokens   == {MAIN_START, "{", "}", BRACE_LITERAL, "stmt;"}

(* code[pos] == '{' / '}' as the character scan meets them *)
brace_step(t) ==
    IF t \in {CLASS_START, MAIN_START, "{"} THEN 1
    ELSE IF t \in {"}", BRACE_LITERAL} THEN -1
    ELSE 0

RECURSIVE match_brace(_, _, _)
match_brace(code, pos, brace_count) ==
    IF pos <= Len(code) /\ brace_count > 0
    THEN match_brace(code, pos + 1, brace_count + brace_step(code[pos]))
    ELSE <<pos, brace_count>>

strip_user_main_method(code) ==
    LET start_pos == First(code, {MAIN_START})
    IN  IF start_pos = 0 THEN code
        ELSE LET m   == match_brace(code, start_pos + 1, 1)
                 pos == m[1]
             IN  IF m[2] = 0
                 THEN SubSeq(code, 1, start_pos - 1)
                      \o (IF code[pos - 1] = BRACE_LITERAL THEN <<LITERAL_TAIL>> ELSE <<>>)
                      \o SubSeq(code, pos, Len(code))
                 ELSE code

(* Python: the text matched by if\s+__name__\s*==\s*["']__main__["']\s*: *)
(* "stmt" is a statement at column 0, INDENTED_STMT a line of a block body *)
MAIN_GUARD    == "if __name__ == '__main__':"
INDENTED_STMT == "    stmt"
PythonTokens  == {MAIN_GUARD, "\n", "stmt", INDENTED_STMT}

(* re.sub(r'\s*<guard>.*', '', code, flags=re.DOTALL) *)
strip_user_main_block(code) ==
    LET guard == First(code, {MAIN_GUARD})
    IN  IF guard = 0 THEN code ELSE rstrip(SubSeq(code, 1, guard - 1))

(* Braces of the Java grammar: a brace inside a string literal is not one *)
grammar_step(t) ==
    IF t \in {CLASS_START, MAIN_START, "{"} THEN 1
    ELSE IF t = "}" THEN -1
    ELSE 0

RECURSIVE Depths(_, _)
Depths(code, depth) ==
    IF code = <<>> THEN <<depth>>
    ELSE <<depth>> \o Depths(Tail(code), depth + grammar_step(Head(code)))

(* A class Solution whose body is balanced and holds methods only at class level *)
JavaSources ==
    { <<CLASS_START>> \o body \o <<"}">> : body \in
        { b \in SeqsUpTo(JavaTokens, MaxSource) :
            LET d == Depths(b, 1)
            IN  /\ d[Len(d)] = 1
                /\ \A k \in 1..Len(d) : d[k] >= 1
                /\ \A k \in 1..Len(b) : b[k] = MAIN_START => d[k] = 1 } }

PythonSources == SeqsUpTo(PythonTokens, MaxSource)

(***************************************************************************)
(* Validators: parse_test_input (Python), parse_java_test_input (Java).    *)
(* A test input is a sequence of tokens.                                   *)
(***************************************************************************)
MaxInput == 4

InputTokens == {",", " ", "5", "\"", "[", "]", "None"}

(* str.split(',') *)
RECURSIVE split(_)
split(text) ==
    LET comma == First(text, {","})
    IN  IF comma = 0 THEN <<text>>
        ELSE <<SubSeq(text, 1, comma - 1)>> \o split(SubSeq(text, comma + 1, Len(text)))

parse_test_input(input_str) ==
    IF strip(input_str) = <<>> THEN <<>>
    ELSE IF lower_text(strip(input_str)) = <<"none">> THEN <<>>
    ELSE LET parts == split(input_str)
         IN  [k \in 1..Len(parts) |-> strip(parts[k])]

parse_java_test_input(input_str) ==
    IF strip(input_str) = <<>> THEN <<>>
    ELSE IF lower_text(strip(input_str)) = <<"none">> THEN <<>>
    ELSE LET parts == split(input_str)
         IN  [k \in 1..Len(parts) |-> strip(parts[k])]

(* Position of the scan of a test input: inside a quoted string, bracket depth *)
RECURSIVE Nesting(_, _, _)
Nesting(text, quoted, depth) ==
    IF text = <<>> THEN <<[quoted |-> quoted, depth |-> depth]>>
    ELSE <<[quoted |-> quoted, depth |-> depth]>>
         \o Nesting(Tail(text),
                    IF Head(text) = "\"" THEN ~quoted ELSE quoted,
                    IF quoted THEN depth
                    ELSE IF Head(text) = "[" THEN depth + 1
                    ELSE IF Head(text) = "]" THEN depth - 1
                    ELSE depth)

(* Test inputs with closed quotes and balanced brackets *)
TestInputs ==
    { t \in SeqsUpTo(InputTokens, MaxInput) :
        LET n == Nesting(t, FALSE, 0)
        IN  /\ ~n[Len(n)].quoted /\ n[Len(n)].depth = 0
            /\ \A k \in 1..Len(n) : n[k].depth >= 0 }

ParseFunctions == {"parse_test_input", "parse_java_test_input"}

(***************************************************************************)
(* _prepare_code: the stdin string escaped for a string literal.           *)
(* A stdin string is a sequence of characters.                             *)
(***************************************************************************)
StdinChars == {"\\", "'", "\"", "\n", "\r", "\t", "n"}

StdinStrings == SeqsUpTo(StdinChars, MaxInput)

(* str.replace(old, new) for a single character old *)
RECURSIVE replace(_, _, _)
replace(text, old, new) ==
    IF text = <<>> THEN <<>>
    ELSE (IF Head(text) = old THEN new ELSE <<Head(text)>>)
         \o replace(Tail(text), old, new)

(* PythonExecutor._prepare_code: the text between the quotes of            *)
(* io.StringIO('...')                                                      *)
python_stdin_escaped(stdin_data) ==
    replace(replace(replace(stdin_data, "\\", <<"\\", "\\">>),
                    "'", <<"\\", "'">>),
            "\n", <<"\\", "n">>)

(* JavaExecutor._prepare_code: the text between the quotes of              *)
(* String input = "...";                                                   *)
java_stdin_escaped(stdin_data) ==
    replace(replace(replace(replace(replace(stdin_data,
                    "\\", <<"\\", "\\">>),
                    "\"", <<"\\", "\"">>),
                    "\n", <<"\\", "n">>),
                    "\r", <<"\\", "r">>),
            "\t", <<"\\", "t">>)

EscapeFunctions == {"python_stdin_escaped", "java_stdin_escaped"}

(***************************************************************************)
(* _prepare_code: the driver chosen for a submission.                      *)
(* A submission is a sequence of the constructs the patterns look for.     *)
(***************************************************************************)
ENTRY_POINT    == "entry point"
SOLUTION_CLASS == "class Solution"
METHOD         == "method"
SubmissionTokens == {ENTRY_POINT, SOLUTION_CLASS, METHOD, "stmt"}

Submissions == SeqsUpTo(SubmissionTokens, MaxSource)

(* _has_user_main: re.search of the entry point pattern *)
has_user_main(user_code) ==
    \E k \in 1..Len(user_code) : user_code[k] = ENTRY_POINT

(* re.search(r'class\s+Solution...', user_code) *)
has_solution_class(user_code) ==
    \E k \in 1..Len(user_code) : user_code[k] = SOLUTION_CLASS

(* extract_solution_method_name / extract_java_method_name: a method       *)
(* after the start of the Solution class, or None                          *)
method_name(user_code) ==
    IF \E i, j \in 1..Len(user_code) :
          i < j /\ user_code[i] = SOLUTION_CLASS /\ user_code[j] = METHOD
    THEN METHOD ELSE None

(* The wrappers _prepare_code can return *)
USER_MAIN_WRAPPER     == "run the submission's entry point"
SYNTAX_ONLY_WRAPPER   == "user code alone (syntax validation only)"
AUTO_CALL_WRAPPER     == "Solution().method(), print a non-null result"
NO_METHOD_WRAPPER     == "Solution class found but no methods defined; exit 1"
NO_SOLUTION_WRAPPER   == "Please define a Solution class; exit 1"

(* The tail shared by both languages: Solution class, then its method *)
solution_wrapper(user_code) ==
    IF has_solution_class(user_code)
    THEN IF method_name(user_code) # None THEN AUTO_CALL_WRAPPER
         ELSE NO_METHOD_WRAPPER
    ELSE NO_SOLUTION_WRAPPER

(* PythonExecutor._prepare_code *)
python_prepare_code(user_code, has_test_cases) ==
    IF has_user_main(user_code) THEN USER_MAIN_WRAPPER
    ELSE IF ~has_test_cases THEN SYNTAX_ONLY_WRAPPER
    ELSE solution_wrapper(user_code)

(* JavaExecutor._prepare_code *)
java_prepare_code(user_code) ==
    IF has_user_main(user_code) THEN USER_MAIN_WRAPPER
    ELSE solution_wrapper(user_code)

(* execute_code calls _prepare_code with has_test_cases = bool(test_cases) *)
PrepareFunctions ==
    {"python_prepare_code", "python_prepare_code_has_test_cases",
     "java_prepare_code"}

apply_strip(fn, code) ==
    IF fn = "strip_user_main_method" THEN strip_user_main_method(code)
    ELSE strip_user_main_block(code)

HarnessInit ==
    /\ metrics = [duration_minutes |-> 0]
    /\ insights = NoInsights
    /\ score = NoScore
    /\ phase = "off"
    /\ session = <<>>
    /\ user_id = "unknown"
    /\ reply = NoReply
    /\ docker_available = FALSE
    /\ req = [x_api_key |-> None]
    /\ pc = "off"
    /\ executor = "none"
    /\ containers = <<>>
    /\ ec = NoEc
    /\ test_results = <<>>
    /\ all_passed = TRUE
    /\ last_result = NoResult
    /\ result = NoResult
    /\ runs = <<>>
    /\ response = NoResponse
    /\ host_tmp = NoFiles
    /\ calls = <<>>
    /\ harness_out = <<>>
    /\ \/ harness_fn = "strip_user_main_method" /\ harness_in \in JavaSources
       \/ harness_fn = "strip_user_main_block" /\ harness_in \in PythonSources
       \/ harness_fn \in ParseFunctions /\ harness_in \in TestInputs
       \/ harness_fn \in EscapeFunctions /\ harness_in \in StdinStrings
       \/ harness_fn \in PrepareFunctions /\ harness_in \in Submissions

StripFunctions == {"strip_user_main_method", "strip_user_main_block"}

(* generate_java_test_wrapper / generate_test_wrapper: the source is stripped *)
StripUserMain ==
    /\ harness_fn \in StripFunctions
    /\ harness_out = <<>>
    /\ harness_out' = <<apply_strip(harness_fn, harness_in)>>
    /\ UNCHANGED <<harness_fn, harness_in>>
    /\ UNCHANGED <<score_vars, exec_vars, shared_vars>>

(* The stripped source is handed to the same function once more *)
StripAgain ==
    /\ harness_fn \in StripFunctions
    /\ Len(harness_out) = 1
    /\ harness_out' = Append(harness_out, apply_strip(harness_fn, harness_out[1]))
    /\ UNCHANGED <<harness_fn, harness_in>>
    /\ UNCHANGED <<score_vars, exec_vars, shared_vars>>

(* create_test_code / create_java_test_code: the test input is parsed *)
ParseTestInput ==
    /\ harness_fn \in ParseFunctions
    /\ harness_out = <<>>
    /\ harness_out' = <<IF harness_fn = "parse_test_input"
                        THEN parse_test_input(harness_in)
                        ELSE parse_java_test_input(harness_in)>>
    /\ UNCHANGED <<harness_fn, harness_in>>
    /\ UNCHANGED <<score_vars, exec_vars, shared_vars>>

(* _prepare_code: the stdin of the request is escaped for the literal *)
EscapeStdin ==
    /\ harness_fn \in EscapeFunctions
    /\ harness_out = <<>>
    /\ harness_out' = <<IF harness_fn = "python_stdin_escaped"
                        THEN python_stdin_escaped(harness_in)
                        ELSE java_stdin_escaped(harness_in)>>
    /\ UNCHANGED <<harness_fn, harness_in>>
    /\ UNCHANGED <<score_vars, exec_vars, shared_vars>>

(* execute_code: the submission is wrapped by _prepare_code *)
PrepareCode ==
    /\ harness_fn \in PrepareFunctions
    /\ harness_out = <<>>
    /\ harness_out' =
          <<IF harness_fn = "java_prepare_code"
            THEN java_prepare_code(harness_in)
            ELSE python_prepare_code(harness_in,
                     harness_fn = "python_prepare_code_has_test_cases")>>
    /\ UNCHANGED <<harness_fn, harness_in>>
    /\ UNCHANGED <<score_vars, exec_vars, shared_vars>>

HarnessNext ==
    \/ StripUserMain
    \/ StripAgain
    \/ ParseTestInput
    \/ EscapeStdin
    \/ PrepareCode

SpecHarness == HarnessInit /\ [][HarnessNext]_vars

(***************************************************************************)
(* Backend: POST /api/execution/run (run_code)                             *)
(***************************************************************************)
(* ExecutionRequest.language: Optional, None when the field is null *)
BackendLanguages == {"python", "PYTHON", "java", "ruby", None}

BackendRequests ==
    [via        : {"backend"},
     timeout    : {NoTimeout},
     x_api_key  : {None},
     language   : BackendLanguages,
     code       : CodeValues,
     test_cases : TestLists]

EXECUTOR_MAP == <<"python", "java">>

(* get_executor: the executor of language.lower(), or ValueError *)
get_executor(language) ==
    IF \E k \in 1..Len(EXECUTOR_MAP) : EXECUTOR_MAP[k] = lower(language)
    THEN lower(language) ELSE "ValueError"

(* What the call of the executor gives run_code: a result, or an exception *)
(* out of the executor or out of analyze_execution_behavior                *)
BackendStatuses   == {"success", "error", "timeout", "failed_tests"}
BackendExceptions == {"RuntimeError", "Exception"}

http_error(status_code, detail) ==
    [NoResponse EXCEPT !.http = status_code, !.detail = detail]

(* raise HTTPException(status_code=400, detail=str(e)) under get_executor *)
unsupported_language_error ==
    [http_error(400, "Unsupported language") EXCEPT !.supported = EXECUTOR_MAP]

(* except Exception as e: raise HTTPException(500, ...); e is the response *)
(* of an HTTPException raised in the try block, or NoResponse for any      *)
(* other exception. str(e) of an HTTPException holds its detail.           *)
except_exception(e) ==
    [http_error(500, "Execution service error") EXCEPT !.supported = e.supported]

BackendInit ==
    /\ metrics = [duration_minutes |-> 0]
    /\ insights = NoInsights
    /\ score = NoScore
    /\ phase = "off"
    /\ session = <<>>
    /\ user_id = "unknown"
    /\ reply = NoReply
    /\ docker_available \in BOOLEAN
    /\ req \in BackendRequests
    /\ pc = "run_code"
    /\ executor = "none"
    /\ containers = <<>>
    /\ ec = NoEc
    /\ test_results = <<>>
    /\ all_passed = TRUE
    /\ last_result = NoResult
    /\ result = NoResult
    /\ runs = <<>>
    /\ response = NoResponse
    /\ host_tmp = NoFiles
    /\ calls = <<>>
    /\ ParkedHarness

(* run_code: DOCKER_AVAILABLE is false, HTTPException(503) before the try *)
RunCodeUnavailable ==
    /\ pc = "run_code"
    /\ ~docker_available
    /\ response' = http_error(503, "Code execution is not available")
    /\ pc' = "done"
    /\ UNCHANGED <<docker_available, req, executor, containers, ec, test_results, all_passed,
                   last_result, result, runs>>
    /\ UNCHANGED <<score_vars, shared_vars, harness_vars>>

(* run_code: get_executor raises ValueError; the HTTPException(400) is     *)
(* raised inside the try block                                             *)
RunCodeUnsupported ==
    /\ pc = "run_code"
    /\ docker_available
    /\ get_executor(IF req.language = None THEN "python" ELSE req.language) = "ValueError"
    /\ response' = except_exception(unsupported_language_error)
    /\ pc' = "done"
    /\ UNCHANGED <<docker_available, req, executor, containers, ec, test_results, all_passed,
                   last_result, result, runs>>
    /\ UNCHANGED <<score_vars, shared_vars, harness_vars>>

(* run_code: the executor runs the code; its result is the response *)
RunCodeExecute ==
    /\ pc = "run_code"
    /\ docker_available
    /\ get_executor(IF req.language = None THEN "python" ELSE req.language) # "ValueError"
    /\ executor' = get_executor(IF req.language = None THEN "python" ELSE req.language)
    /\ \/ \E st \in BackendStatuses, x \in ExitCodes :
            /\ result' = ExecutionResult(st, <<>>, "", 1, x)
            /\ runs' = Append(runs, [status |-> st, execution_time |-> 1,
                                     exit_code |-> x, output |-> <<>>, elapsed |-> 1,
                                     infra |-> FALSE, timeout |-> TIMEOUT[executor']])
            /\ response' = execution_response(result', 1)
       \/ \E exc \in BackendExceptions :
            /\ response' = except_exception(NoResponse)
            /\ UNCHANGED <<result, runs>>
    /\ pc' = "done"
    /\ UNCHANGED <<docker_available, req, containers, ec, test_results, all_passed,
                   last_result>>
    /\ UNCHANGED <<score_vars, shared_vars, harness_vars>>

BackendNext ==
    \/ RunCodeUnavailable
    \/ RunCodeUnsupported
    \/ RunCodeExecute

SpecBackend == BackendInit /\ [][BackendNext]_vars

(***************************************************************************)
(* Properties                                                              *)
(***************************************************************************)
Returned == pc \in {"respond", "done"}
Between(lo, x, hi) == RLe(lo, x) /\ RLe(x, hi)
AllRemoved == \A k \in 1..Len(containers) : containers[k] = "removed"

(* C1: for every SessionMetrics with non-negative fields, the ces returned *)
(* by analyze followed by calculate lies in the closed interval [-1, 1].   *)
C1_CesInRange ==
    phase = "scored" => Between(R(-1), score.ces, R(1))

C1_Witness ==
    /\ phase = "scored"
    /\ insights.integrity_penalty = Frac(1, 2)
    /\ metrics.focus_violation_count > 10
    /\ RLt(score.ces, Frac(-7, 10))

(* C2: the classification returned by calculate is the threshold band of   *)
(* the ces value returned in the same result: High iff ces > 0.5, Moderate *)
(* iff 0.2 < ces <= 0.5, Low iff 0 < ces <= 0.2, Disengaged iff ces <= 0.  *)
BandOf(ces) ==
    IF ces[1] * 10 > 5 * ces[2] THEN "High Engagement"
    ELSE IF ces[1] * 10 > 2 * ces[2] THEN "Moderate Engagement"
    ELSE IF ces[1] > 0 THEN "Low Engagement"
    ELSE "Disengaged/At-Risk"

C2_ClassificationIsBandOfCes ==
    phase = "scored" => score.classification = BandOf(score.ces)

(* C3: for execute_with_tests on a non-empty test list the aggregate       *)
(* status is success iff every verdict passed and every per-test run       *)
(* returned success; error iff no test produced a run (wrapper generation  *)
(* failed for every test); otherwise failed_tests, and then at least one   *)
(* verdict has passed = false.                                             *)
AllVerdictsPassed == \A k \in 1..Len(test_results) : test_results[k].passed
AllRunsSucceeded  == \A k \in 1..Len(runs) : runs[k].status = "success"
SomeVerdictFailed == \E k \in 1..Len(test_results) : ~test_results[k].passed
WrapperFailedForAll ==
    /\ runs = <<>>
    /\ \A k \in 1..Len(test_results) :
          test_results[k].error \in
             {"No Solution class found in code. Please define a class Solution with your methods.",
              "No method found in Solution class. Please add a public method.",
              "No method found in Solution class",
              "No function definition found in code"}

Answer == IF req.via = "endpoint" THEN response ELSE result

C4_OneVerdictPerTest ==
    (pc = "done" /\ Answer.status \notin {"none", "error"}) =>
        Len(Answer.test_results) = Len(req.test_cases)

C4_Witness ==
    /\ pc = "done"
    /\ response.status = "failed_tests"
    /\ Len(req.test_cases) = 2
    /\ Len(response.test_results) = 2
    /\ response.test_results[1].passed
    /\ runs[2].status = "timeout"

(* C5 as stated: the tests run one at a time in declared order, and the    *)
(* verdict at position i has test_number i+1 (1-based: i) and the input    *)
(* and expected_output of the i-th declared test case.                     *)
OneRunAtATime ==
    /\ Len(containers) <= Len(runs) + 1
    /\ WithTests => Len(runs) <= Len(test_results)
    /\ (WithTests /\ pc \in {"ec_run", "ec_wait", "ec_stop", "ec_remove_stopped",
                             "ec_logs", "ec_remove"})
          => (Len(runs) = Len(test_results) /\ NextTest <= Len(req.test_cases))
    /\ pc \in {"tests_loop", "respond", "done"} => Len(containers) <= Len(runs)

IsStripped(a, b) ==
    \E i \in 0..Len(b) : \E j \in 0..Len(b) :
        /\ i + Len(a) + j = Len(b)
        /\ \A k \in 1..Len(a) : a[k] = b[i + k]
        /\ \A k \in 1..i : b[k] \in Whitespace
        /\ \A k \in (Len(b) - j + 1)..Len(b) : b[k] \in Whitespace
        /\ a # <<>> => (a[1] \notin Whitespace /\ a[Len(a)] \notin Whitespace)

C6_TimeoutOnlyAfterCeiling ==
    \A k \in 1..Len(runs) :
        runs[k].status = "timeout" => runs[k].execution_time >= runs[k].timeout

(* C7: every container that was created is stopped and removed before      *)
(* execute_code returns, on every path after creation.                     *)
C7_ContainersRemovedOnReturn ==
    pc \in {"tests_loop", "respond", "done"} => AllRemoved

(* C8: a POST /execute whose X-API-Key is missing or wrong is answered     *)
(* with 401, causes no executor call and no container creation, and the    *)
(* response does not contain the key that was provided.                    *)
C8_UnauthorizedRejected ==
    (req.via = "endpoint" /\ req.x_api_key # "dev-key-change-in-production") =>
        /\ executor = "none" /\ containers = <<>> /\ runs = <<>>
        /\ pc # "entry" =>
              /\ pc = "done"
              /\ response.http = 401
              /\ req.x_api_key \notin {response.detail, response.error}
              /\ response.output = <<>> /\ response.test_results = <<>>

C8_Witness ==
    /\ pc = "done"
    /\ req.via = "endpoint"
    /\ docker_available
    /\ req.x_api_key = None
    /\ req.test_cases # <<>>
    /\ response.http = 401

(* C9: a request whose lowercased language tag is not in the registry is   *)
(* answered with status error, exit_code -1 and the list of supported      *)
(* tags, without creating a container, with or without test cases; a tag   *)
(* that differs from a supported one only by letter case is dispatched.    *)
C9_LanguageDispatch ==
    (req.via = "endpoint" /\ req.x_api_key = "dev-key-change-in-production"
       /\ pc # "entry") =>
        /\ (req.language = "ruby" \/ ~docker_available) =>
              /\ pc = "done"
              /\ response.http = 200
              /\ response.status = "error"
              /\ response.exit_code = -1
              /\ response.supported =
                    IF docker_available THEN <<"java", "python">> ELSE <<>>
              /\ containers = <<>> /\ runs = <<>> /\ executor = "none"
        /\ (docker_available /\ req.language \in {"python", "PYTHON"})
              => executor = "python"
        /\ (docker_available /\ req.language = "java") => executor = "java"

C9_Witness ==
    /\ pc = "done"
    /\ req.via = "endpoint"
    /\ docker_available
    /\ req.language = "ruby"
    /\ req.test_cases # <<>>
    /\ response.status = "error"

C9_WitnessCase ==
    /\ pc = "done"
    /\ req.language = "PYTHON"
    /\ runs # <<>>

(* C10: when a run cannot be carried out because of an infrastructure      *)
(* failure, the ExecutionResult returned has status error and exit_code    *)
(* -1, for plain execution and for execution with test cases alike.        *)
C10_InfrastructureFailureResult ==
    (Returned /\ runs # <<>> /\ \A k \in 1..Len(runs) : runs[k].infra) =>
        (result.status = "error" /\ result.exit_code = -1)

(* C11: two execute invocations that run concurrently never share a        *)
(* writable file: the source file written for one invocation cannot be     *)
(* overwritten or read by the container of another invocation, so each     *)
(* container runs exactly the source of its own request.                   *)
C11_NoSharedSourceFile ==
    \A i \in DOMAIN calls :
        calls[i].ran # None =>
            /\ calls[i].ran = calls[i].code
            /\ \A f \in FileNames : calls[i].sees[f] \in {None, calls[i].code}

(* C12: the ceiling applied to the wait on a sandbox is the timeout of the  *)
(* request when one is supplied and the language default (Python 5 s,      *)
(* Java 10 s) otherwise; a run is reported as timeout exactly when it      *)
(* reaches that ceiling.                                                   *)
RequestedCeiling ==
    IF req.timeout # NoTimeout THEN req.timeout
    ELSE IF lower(req.language) = "java" THEN 10 ELSE 5

C12_CeilingIsRequestTimeout ==
    \A k \in 1..Len(runs) :
        req.via = "endpoint" =>
        /\ runs[k].timeout = RequestedCeiling
        /\ (runs[k].status = "timeout") <=> (runs[k].elapsed >= RequestedCeiling)

(* C13: in a sequence of updates of one session, if an update is labelled  *)
(* Suspected External Paste and the next update reports a single small     *)
(* edit (last_edit_size_chars <= 30), analyze returns Authentic            *)
(* Refactoring for that next update.                                       *)
C13_SmallEditAfterPasteIsAuthentic ==
    (/\ phase = "scored"
     /\ Len(session) >= 2
     /\ session[Len(session) - 1] = SUSPECTED_PASTE
     /\ metrics.last_edit_size_chars <= 30)
        => session[Len(session)] = AUTHENTIC_REFACTORING

(* C14: two requests to POST /api/telemetry/analyze that differ only in    *)
(* the identity fields yield responses with identical numeric fields,      *)
(* for every pair of identities: unknown users, students, non-students.    *)
NumericFields(r) ==
    <<r.kpm, r.ad, r.ir, r.fvc, r.ces, r.effective_kpm, r.effective_ad,
      r.effective_ir, r.integrity_penalty>>

C14_IdentityDoesNotChangeNumbers ==
    phase = "scored" =>
        \A other \in UserIds :
            NumericFields(analyze_telemetry(other, metrics)) = NumericFields(reply)

(* C15: for every SessionMetrics with duration_minutes = 0 and arbitrary   *)
(* other fields, effective_kpm, effective_ad and effective_ir are all 0    *)
(* and the ces equals minus the integrity_penalty, clamped to [-1, 1].     *)
C15_ZeroDurationScore ==
    (phase = "scored" /\ metrics.duration_minutes = 0) =>
        /\ insights.effective_kpm = R(0)
        /\ insights.effective_ad = R(0)
        /\ insights.effective_ir = R(0)
        /\ score.ces = clamp_ces(RNeg(insights.integrity_penalty))

(* C15 amended: ... and the ces equals minus the sum of the                *)
(* integrity_penalty and the focus-violation penalty                       *)
(* 0.25 * min(focus_violation_count / 10, 1), clamped to [-1, 1].          *)
FocusPenalty(fvc) == Frac(IF fvc >= 10 THEN 10 ELSE fvc, 40)

C15_ZeroDurationScoreWithFocusPenalty ==
    (phase = "scored" /\ metrics.duration_minutes = 0) =>
        /\ insights.effective_kpm = R(0)
        /\ insights.effective_ad = R(0)
        /\ insights.effective_ir = R(0)
        /\ score.ces = clamp_ces(RNeg(RAdd(insights.integrity_penalty,
                                           FocusPenalty(metrics.focus_violation_count))))

C15_Witness ==
    /\ phase = "scored"
    /\ metrics.duration_minutes = 0
    /\ metrics.total_keystrokes = 600
    /\ metrics.focus_violation_count = 11
    /\ insights.integrity_penalty = Frac(1, 2)
    /\ score.ces = Frac(-3, 4)

(* C16: the result of strip_user_main_block and of strip_user_main_method  *)
(* contains no student entry point, so the wrapper built from it has only  *)
(* the harness's entry point and none of the statements of the student's   *)
(* main; stripping an already stripped source changes nothing.             *)
RECURSIVE WithoutMain(_)
WithoutMain(code) ==
    LET start == First(code, {MAIN_START, MAIN_GUARD})
    IN  IF start = 0 THEN code
        ELSE IF code[start] = MAIN_GUARD THEN rstrip(SubSeq(code, 1, start - 1))
        ELSE LET d    == Depths(code, 0)
                 stop == CHOOSE k \in (start + 1)..Len(code) :
                            /\ d[k + 1] = d[start]
                            /\ \A j \in (start + 1)..(k - 1) : d[j + 1] > d[start]
             IN  WithoutMain(SubSeq(code, 1, start - 1)
                             \o SubSeq(code, stop + 1, Len(code)))

C16_StripRemovesEntryPoint ==
    /\ Len(harness_out) >= 1 /\ harness_fn \in StripFunctions =>
          /\ First(harness_out[1], {MAIN_START, MAIN_GUARD}) = 0
          /\ harness_out[1] = WithoutMain(harness_in)
    /\ Len(harness_out) >= 2 /\ harness_fn \in StripFunctions =>
          harness_out[2] = harness_out[1]

(* C17: parse_test_input and parse_java_test_input return the empty list   *)
(* for a blank input and for the word none in any letter case; otherwise   *)
(* the list of the top-level comma-separated items (a comma inside quotes  *)
(* or brackets does not split), each kept as it is apart from surrounding  *)
(* whitespace.                                                             *)
RECURSIVE TopLevelItems(_, _, _)
TopLevelItems(text, nesting, item) ==
    IF text = <<>> THEN <<strip(item)>>
    ELSE IF Head(text) = "," /\ ~Head(nesting).quoted /\ Head(nesting).depth = 0
    THEN <<strip(item)>> \o TopLevelItems(Tail(text), Tail(nesting), <<>>)
    ELSE TopLevelItems(Tail(text), Tail(nesting), Append(item, Head(text)))

C17_ParseSplitsAtTopLevel ==
    (harness_fn \in ParseFunctions /\ Len(harness_out) = 1) =>
        harness_out[1] =
            IF strip(harness_in) = <<>> \/ strip(harness_in) \in {<<"none">>, <<"None">>, <<"NONE">>}
            THEN <<>>
            ELSE TopLevelItems(harness_in, Nesting(harness_in, FALSE, 0), <<>>)

(* C18: for both languages and every stdin built from backslash, single    *)
(* and double quote, newline, carriage return, tab and ordinary            *)
(* characters, the literal emitted for stdin decodes, under the literal    *)
(* rules of the target language, to exactly the original stdin, and no     *)
(* character of stdin ends the literal early.                              *)
Unescape(c) ==
    IF c = "n" THEN "\n" ELSE IF c = "r" THEN "\r" ELSE IF c = "t" THEN "\t" ELSE c

(* The value of a literal delimited by quote, or <<"SyntaxError">> when    *)
(* the body holds a bare quote, a raw line end or an unfinished escape     *)
RECURSIVE DecodeLiteral(_, _)
DecodeLiteral(body, quote) ==
    IF body = <<>> THEN <<>>
    ELSE IF Head(body) \in {quote, "\n", "\r"} THEN <<"SyntaxError">>
    ELSE IF Head(body) = "\\"
    THEN IF Len(body) = 1 THEN <<"SyntaxError">>
         ELSE LET rest == DecodeLiteral(SubSeq(body, 3, Len(body)), quote)
              IN  IF rest = <<"SyntaxError">> THEN rest
                  ELSE <<Unescape(body[2])>> \o rest
    ELSE LET rest == DecodeLiteral(Tail(body), quote)
         IN  IF rest = <<"SyntaxError">> THEN rest ELSE <<Head(body)>> \o rest

C18_StdinLiteralRoundTrip ==
    (harness_fn \in EscapeFunctions /\ Len(harness_out) = 1) =>
        DecodeLiteral(harness_out[1],
                      IF harness_fn = "python_stdin_escaped" THEN "'" ELSE "\"")
            = harness_in

(* C19: for both languages, in plain mode (no test cases) the driver is    *)
(* the first match of: own entry point -> run it and auto-call nothing;    *)
(* Solution class with a method -> construct Solution, call the first      *)
(* method with no arguments and print a non-null result; Solution class    *)
(* without method -> the 'no methods defined' hint and exit 1; no Solution *)
(* class -> the 'define a Solution class' hint and exit 1.                 *)
DriverByRuleOrder(code) ==
    IF has_user_main(code) THEN USER_MAIN_WRAPPER
    ELSE IF has_solution_class(code) /\ method_name(code) # None
    THEN AUTO_CALL_WRAPPER
    ELSE IF has_solution_class(code) THEN NO_METHOD_WRAPPER
    ELSE NO_SOLUTION_WRAPPER

C19_PlainModeDriverOrder ==
    (/\ harness_fn \in {"python_prepare_code", "java_prepare_code"}
     /\ Len(harness_out) = 1) =>
        harness_out[1] = DriverByRuleOrder(harness_in)

(* C20: a Java submission without a Solution class, run plain or with one *)
(* or more test cases, yields a result with status error, a non-zero       *)
(* exit_code and an error text that mentions the Solution class (runs in   *)
(* which Docker itself failed or the wait timed out are left aside).       *)
MentionsSolutionClass ==
    {"Error: Please define a Solution class with your methods.",
     "No Solution class found in code. Please define a class Solution with your methods."}

NoDockerFailure == \A k \in 1..Len(runs) : ~runs[k].infra /\ runs[k].status # "timeout"

C20_JavaWithoutSolutionClass ==
    (/\ pc = "done"
     /\ executor = "java"
     /\ req.code = "no_solution"
     /\ NoDockerFailure) =>
        /\ result.status = "error"
        /\ result.exit_code # 0
        /\ result.error \in MentionsSolutionClass

(* C21: whenever analyze labels an input Suspected External Paste, its     *)
(* integrity_penalty is 0.5 and the ces of that input is strictly less     *)
(* than the ces of the same input with focus_violation_count set to 0.     *)
WithoutFocusViolations == [metrics EXCEPT !.focus_violation_count = 0]

C21_PasteLowersCes ==
    (phase = "scored" /\ insights.provenance_state = SUSPECTED_PASTE) =>
        /\ insights.integrity_penalty = Frac(1, 2)
        /\ RLt(score.ces,
               calculate(WithoutFocusViolations,
                         analyze(WithoutFocusViolations)).ces)

C21_Witness ==
    /\ phase = "scored"
    /\ insights.provenance_state = SUSPECTED_PASTE
    /\ metrics.duration_minutes > 0
    /\ metrics.total_keystrokes > 0
    /\ RGt(calculate(WithoutFocusViolations,
                     analyze(WithoutFocusViolations)).ces, R(0))

(* C22: whenever analyze returns Reflective Pause for an input with        *)
(* duration_minutes > 0, effective_ir is strictly less than                *)
(* total_idle_minutes / duration_minutes and not negative; for every other *)
(* cognitive state effective_ir equals total_idle_minutes /                *)
(* duration_minutes.                                                       *)
RawIdleRatio == RDiv(R(metrics.total_idle_minutes), R(metrics.duration_minutes))

C22_ReflectivePauseLowersIr ==
    (phase = "scored" /\ metrics.duration_minutes > 0) =>
        IF insights.cognitive_state = REFLECTIVE_PAUSE
        THEN /\ RLt(insights.effective_ir, RawIdleRatio)
             /\ RGe(insights.effective_ir, R(0))
        ELSE insights.effective_ir = RawIdleRatio

(* C22, amended: the reduction is strict only when there is idle time to   *)
(* reduce; with total_idle_minutes = 0 both sides are 0.                   *)
C22_ReflectivePauseLowersIrIfAnyIdle ==
    (phase = "scored" /\ metrics.duration_minutes > 0) =>
        IF insights.cognitive_state = REFLECTIVE_PAUSE
        THEN /\ RGe(insights.effective_ir, R(0))
             /\ IF metrics.total_idle_minutes > 0
                THEN RLt(insights.effective_ir, RawIdleRatio)
                ELSE insights.effective_ir = RawIdleRatio
        ELSE insights.effective_ir = RawIdleRatio

(* A reflective pause longer than the idle time counted so far: the floor  *)
(* at 0 applies                                                            *)
C22_Witness ==
    /\ phase = "scored"
    /\ metrics.duration_minutes > 0
    /\ insights.cognitive_state = REFLECTIVE_PAUSE
    /\ metrics.total_idle_minutes > 0
    /\ metrics.current_idle_duration > 60 * metrics.total_idle_minutes
    /\ insights.effective_ir = R(0)

(* C23: every input whose current_idle_duration exceeds 120 seconds is     *)
(* classified Disengagement, whatever the window focus and the outcome of  *)
(* the last run; Reflective Pause and Passive Idle are returned only for   *)
(* idle episodes between 30 and 120 seconds.                               *)
C23_LongIdleIsDisengagement ==
    (phase = "scored") =>
        /\ (metrics.current_idle_duration > DISENGAGEMENT_THRESHOLD =>
               insights.cognitive_state = DISENGAGEMENT)
        /\ (insights.cognitive_state \in {REFLECTIVE_PAUSE, PASSIVE_IDLE} =>
               /\ metrics.current_idle_duration > REFLECTIVE_PAUSE_MIN
               /\ metrics.current_idle_duration <= DISENGAGEMENT_THRESHOLD)

(* C27: for every input the integrity_penalty returned by analyze is 0 or  *)
(* 0.5, and it is 0.5 if and only if the returned provenance_state is      *)
(* Suspected External Paste.                                               *)
C27_PenaltyOnlyForSuspectedPaste ==
    (phase = "scored") =>
        /\ insights.integrity_penalty \in {R(0), Frac(1, 2)}
        /\ (insights.integrity_penalty = Frac(1, 2)
               <=> insights.provenance_state = SUSPECTED_PASTE)

(* C30: for every SessionMetrics input the unclamped score                 *)
(* 0.35*K + 0.25*A - 0.25*F - 0.15*I - integrity_penalty lies in           *)
(* [-0.9, 0.6], so the clamp to [-1, 1] never changes the value and no     *)
(* input reaches ces = 1 or ces = -1.                                      *)
C30_ClampNeverBinds ==
    (phase = "scored") =>
        /\ RGe(score.unclamped, Frac(-9, 10))
        /\ RLe(score.unclamped, Frac(6, 10))
        /\ clamp_ces(score.unclamped) = score.unclamped
        /\ score.ces \notin {R(1), R(-1)}

(* The lowest score: no productive term, both penalty terms saturated and  *)
(* the paste penalty                                                       *)
C30_Witness ==
    /\ phase = "scored"
    /\ insights.integrity_penalty = Frac(1, 2)
    /\ metrics.focus_violation_count > 10
    /\ score.unclamped = Frac(-9, 10)
    /\ score.ces = Frac(-9, 10)

(* C24: for an execute call with N test cases, all of them run to their    *)
(* end in a container, the execution_time of the aggregate result equals   *)
(* the sum of the execution times of the N per-test runs.                  *)
C24_AggregateTimeIsSum ==
    (/\ Returned
     /\ executor # "none"
     /\ WithTests
     /\ Len(runs) = Len(req.test_cases)
     /\ NoDockerFailure) =>
        result.execution_time = SumTimes(runs)

(* C25: in execute_with_tests the verdict of a test that was run has       *)
(* passed = true if and only if the run returned status success and its    *)
(* output with leading and trailing whitespace removed equals the test's   *)
(* expected_output with leading and trailing whitespace removed; the       *)
(* verdict's actual_output is that stripped output.                        *)
C25_VerdictComparesStrippedOutput ==
    (WithTests /\ runs # <<>>) =>
        /\ Len(runs) = Len(test_results)
        /\ \A k \in 1..Len(runs) :
              /\ IsStripped(test_results[k].actual_output, runs[k].output)
              /\ IsStripped(test_results[k].expected_output,
                            req.test_cases[k].expected_output)
              /\ test_results[k].passed <=>
                    /\ runs[k].status = "success"
                    /\ test_results[k].actual_output = test_results[k].expected_output

(* Two tests run: one passes although the raw output and the raw expected  *)
(* value differ in whitespace, one fails with status success               *)
C25_Witness ==
    /\ Returned
    /\ Len(runs) = 2
    /\ Len(test_results) = 2
    /\ \E k \in 1..2 :
          /\ test_results[k].passed
          /\ runs[k].output # req.test_cases[k].expected_output
    /\ \E k \in 1..2 :
          /\ ~test_results[k].passed
          /\ runs[k].status = "success"

(* C26: for every run that completes before the ceiling, execute_code      *)
(* returns status error when the exit code of the process is not zero or   *)
(* compilation failed (which ends the container command with a non-zero    *)
(* code), and status success with the program's stdout as output when the  *)
(* exit code is zero, whatever the program printed.                        *)
C26_ExitCodeDecidesStatus ==
    [][ (/\ pc = "ec_remove"
         /\ Len(runs') = Len(runs) + 1
         /\ ~runs'[Len(runs')].infra) =>
            IF ec.exit_code = 0
            THEN /\ runs'[Len(runs')].status = "success"
                 /\ runs'[Len(runs')].output = ec.stdout
            ELSE runs'[Len(runs')].status = "error" ]_vars

(* C28: stripping the student's entry point removes exactly the           *)
(* entry-point block: what stands before the marker and after the end of   *)
(* the block (Python: the indented body of the main block; Java: the       *)
(* closing brace that matches the brace of main) is kept, in order         *)
(* (whitespace next to the removed block aside), and a source without an   *)
(* entry point is returned unchanged.                                      *)
NonBlank(text) == SelectSeq(text, LAMBDA t : t \notin Whitespace)

(* Index of the last token of the entry-point block that starts at start *)
BlockEnd(code, start) ==
    IF code[start] = MAIN_GUARD
    THEN IF \E k \in (start + 1)..Len(code) : code[k] \in {"stmt", MAIN_GUARD}
         THEN (CHOOSE k \in (start + 1)..Len(code) :
                  /\ code[k] \in {"stmt", MAIN_GUARD}
                  /\ \A j \in (start + 1)..(k - 1) : code[j] \notin {"stmt", MAIN_GUARD}) - 1
         ELSE Len(code)
    ELSE LET d == Depths(code, 0)
         IN  CHOOSE k \in (start + 1)..Len(code) :
                /\ d[k + 1] = d[start]
                /\ \A j \in (start + 1)..(k - 1) : d[j + 1] > d[start]

RECURSIVE OutsideEntryPoint(_)
OutsideEntryPoint(code) ==
    LET start == First(code, {MAIN_START, MAIN_GUARD})
    IN  IF start = 0 THEN code
        ELSE SubSeq(code, 1, start - 1)
             \o OutsideEntryPoint(SubSeq(code, BlockEnd(code, start) + 1, Len(code)))

C28_StripKeepsTheRest ==
    (Len(harness_out) >= 1 /\ harness_fn \in StripFunctions) =>
        IF First(harness_in, {MAIN_START, MAIN_GUARD}) = 0
        THEN harness_out[1] = harness_in
        ELSE NonBlank(harness_out[1]) = NonBlank(OutsideEntryPoint(harness_in))

(* C29: POST /api/execution/run with a language that get_executor does not *)
(* support is answered with HTTP 400 carrying the list of supported        *)
(* languages and runs nothing; an HTTP error raised inside the handler     *)
(* reaches the caller with its own status code and is not turned into 500. *)
C29_UnsupportedLanguageIs400 ==
    (/\ pc = "done"
     /\ req.via = "backend"
     /\ docker_available
     /\ get_executor(IF req.language = None THEN "python" ELSE req.language)
           = "ValueError") =>
        /\ response.http = 400
        /\ response.supported = EXECUTOR_MAP
        /\ runs = <<>>

====
